---- MODULE Spec2Model ----
(***************************************************************************)
(* Model of the invoice export mapper (src/server/accounting_export.py),   *)
(* of the template renderer and PDF generation                             *)
(* (src/server/template_processor.py, src/templates/create_template.py)    *)
(* and of the reminder batch (src/server/reminder_service.py).             *)
(*                                                                         *)
(* A text is a sequence of string tokens; "" contributes no token.  A      *)
(* Python dict is a function whose domain is the set of keys present, so   *)
(* d['k'] raises KeyError exactly when "k" is not in DOMAIN d.             *)
(***************************************************************************)
EXTENDS Integers, Sequences, FiniteSets, TLC

VARIABLES
    invoices,      \* export_invoices argument: the list of invoice dicts
    format_type,   \* export_invoices argument
    now,           \* the wall clock (seconds)
    stamp,         \* what datetime.now() returned to the running call
    pc,            \* "ready" | "loop" | "returned" | "raised"
    mapper,        \* the mapping function entered, "none" before dispatch
    idx,           \* position of the mapping function's for-loop
    content,       \* the mapping function's local buffer (lines or rows)
    result,        \* the text export_invoices returned (<<>>: nothing)
    error,         \* the exception that left export_invoices ("" : none)
    prev,          \* the previous call of export_invoices, when there was one
    rpc,           \* renderer: "ready" | "paragraphs" | "tables" | "sections" | "saving"
                   \*           | "saved"
                   \*           | "raised" ("off" while the exporter runs)
    template,      \* renderer: the template document in the template store
    doc,           \* renderer: the document process_document has in memory
    invoice_data,  \* renderer: the invoice dict
    tidx,          \* renderer: the table the for-loop is at
    rerror,        \* renderer: the exception that left process_document ("" : none)
    gpc,           \* generate_invoice_pdf: "ready" | "processing" | "try" | "convert" | "read"
                   \*   | "finally" | "returned" | "raised" ("off" when it is not called)
    template_name, \* generate_invoice_pdf argument
    store,         \* the names of the files in templates_dir
    fault,         \* the file or converter operation that fails during the call ("none")
    files,         \* the temporary files on disk: name -> content
    temp_pdf,      \* generate_invoice_pdf's local temp_pdf ("unbound" before assignment)
    pending,       \* the exception raised inside the try block ("" : none)
    converter_calls, \* how often convert() was invoked
    pdf_content,   \* the bytes read from the PDF file (<<>>: none)
    gerror,        \* the exception that left generate_invoice_pdf
    reminder_invoices, \* process_overdue_invoices argument: the list of invoice dicts
    current_time,  \* what datetime.now() returned to process_overdue_invoices
    mpc,           \* process_overdue_invoices: "ready" | "loop" | "returned" ("off")
    midx,          \* position of its for-loop
    results,       \* its results dict
    outbox         \* the reminder emails handed to the SMTP server, in order

exportVars == <<invoices, format_type, now, stamp, pc, mapper, idx, content, result, error, prev>>
renderVars == <<rpc, template, doc, invoice_data, tidx, rerror>>
pdfVars == <<gpc, template_name, store, fault, files, temp_pdf, pending, converter_calls,
             pdf_content, gerror>>
reminderVars == <<reminder_invoices, current_time, mpc, midx, results, outbox>>
vars == <<invoices, format_type, now, stamp, pc, mapper, idx, content, result, error, prev,
          rpc, template, doc, invoice_data, tidx, rerror,
          gpc, template_name, store, fault, files, temp_pdf, pending, converter_calls,
          pdf_content, gerror,
          reminder_invoices, current_time, mpc, midx, results, outbox>>

(***************************************************************************)
(* Bounds of the model.                                                    *)
(***************************************************************************)
MaxInvoices == 2
MaxItems == 2
MaxClock == 1

(***************************************************************************)
(* Texts and Python's dict, str and format primitives.                     *)
(***************************************************************************)
T(s) == IF s = "" THEN <<>> ELSE <<s>>

Has(d, k) == k \in DOMAIN d

Get(d, k, default) == IF Has(d, k) THEN d[k] ELSE default

\* str(n) of a non-negative int
StrInt(n) == <<ToString(n)>>

TwoDigits(n) == IF n < 10 THEN "0" \o ToString(n) ELSE ToString(n)

\* f"{x:.2f}" of an amount given in hundredths
Fmt2f(hundredths) == <<ToString(hundredths \div 100), ".", TwoDigits(hundredths % 100)>>

\* the first exception raised by a sequence of evaluations ("" : none raised)
RECURSIVE FirstError(_)
FirstError(checks) ==
    IF checks = <<>> THEN ""
    ELSE IF Head(checks) # "" THEN Head(checks)
    ELSE FirstError(Tail(checks))

KeyErr(d, k) == IF Has(d, k) THEN "" ELSE "KeyError"

RECURSIVE Flatten(_)
Flatten(seqs) == IF seqs = <<>> THEN <<>> ELSE Head(seqs) \o Flatten(Tail(seqs))

(***************************************************************************)
(* Dates: an ISO-8601 string is held as its tokens.                        *)
(***************************************************************************)
\* s.replace('Z', '+00:00')
ReplaceZ(s) == [i \in 1..Len(s) |-> IF s[i] = "Z" THEN "+00:00" ELSE s[i]]

\* whether datetime.fromisoformat accepts the string
IsIsoFormat(s) ==
    /\ Len(s) \in {5, 7, 8}
    /\ s[2] = "-" /\ s[4] = "-"
    /\ Len(s) >= 7 => s[6] = "T"
    /\ Len(s) = 8 => s[8] = "+00:00"

\* datetime.fromisoformat(s) for an accepted string
FromIsoFormat(s) == [year |-> s[1], month |-> s[3], day |-> s[5]]

\* dt.strftime(fmt) for the three formats the exporter uses
StrfTime(dt, fmt) ==
    CASE fmt = "%m/%d/%Y" -> <<dt.month, "/", dt.day, "/", dt.year>>
      [] fmt = "%d/%m/%Y" -> <<dt.day, "/", dt.month, "/", dt.year>>
      [] fmt = "%Y-%m-%d" -> <<dt.year, "-", dt.month, "-", dt.day>>

\* datetime.fromisoformat(invoice[k].replace('Z', '+00:00')): the exception raised
DateErr(invoice, k) ==
    IF ~Has(invoice, k) THEN "KeyError"
    ELSE IF ~IsIsoFormat(ReplaceZ(invoice[k])) THEN "ValueError"
    ELSE ""

\* datetime.fromisoformat(invoice[k].replace('Z', '+00:00')).strftime(fmt)
DateStr(invoice, k, fmt) == StrfTime(FromIsoFormat(ReplaceZ(invoice[k])), fmt)

(***************************************************************************)
(* items: a Python list (repr "list") or a JSON string, which is the text  *)
(* of a list in some encoding style ("default": json.dumps's separators    *)
(* ", " and ": "; "compact": "," and ":").                                 *)
(***************************************************************************)
IsStr(items) == items.repr # "list"

JsonLoads(s) == [repr |-> "list", seq |-> s.seq]

JsonDumps(lst) == [repr |-> "default", seq |-> lst.seq]

\* json.loads(invoice['items']) if isinstance(invoice['items'], str) else invoice['items']
ItemsOf(invoice) ==
    IF IsStr(invoice.items) THEN JsonLoads(invoice.items).seq ELSE invoice.items.seq

ItemSep(style) == IF style = "compact" THEN "," ELSE ", "

KeySep(style) == IF style = "compact" THEN ":" ELSE ": "

JsonMember(style, key, valueText) == <<"\"" \o key \o "\"", KeySep(style)>> \o valueText

JsonItem(style, item) ==
    <<"{">> \o JsonMember(style, "name", <<"\"" \o item.name \o "\"">>)
    \o (IF Has(item, "description")
        THEN <<ItemSep(style)>>
             \o JsonMember(style, "description", <<"\"" \o item.description \o "\"">>)
        ELSE <<>>)
    \o <<ItemSep(style)>> \o JsonMember(style, "quantity", StrInt(item.quantity))
    \o <<ItemSep(style)>> \o JsonMember(style, "rate", StrInt(item.rate))
    \o <<ItemSep(style)>> \o JsonMember(style, "amount", StrInt(item.amount))
    \o <<"}">>

\* the characters of a JSON string holding a list of items
JsonText(s) ==
    <<"[">>
    \o Flatten([i \in 1..Len(s.seq) |->
                   (IF i > 1 THEN <<ItemSep(s.repr)>> ELSE <<>>) \o JsonItem(s.repr, s.seq[i])])
    \o <<"]">>

(***************************************************************************)
(* str.upper() and str.title() on the status values.                       *)
(***************************************************************************)
Upper(s) ==
    CASE s = "draft" -> "DRAFT" [] s = "sent" -> "SENT" [] s = "paid" -> "PAID"
      [] s = "overdue" -> "OVERDUE" [] OTHER -> s

Title(s) ==
    CASE s = "draft" -> "Draft" [] s = "sent" -> "Sent" [] s = "paid" -> "Paid"
      [] s = "overdue" -> "Overdue" [] OTHER -> s

(***************************************************************************)
(* AccountingExporter.__init__                                             *)
(***************************************************************************)
supported_formats_with_unknown ==
    {"quickbooks_iif", "xero_csv", "sage_csv", "freshbooks_csv", "wave_csv", "generic_csv",
     "xyz"}

supported_formats ==
    {"quickbooks_iif", "xero_csv", "sage_csv", "freshbooks_csv", "wave_csv", "generic_csv"}

(***************************************************************************)
(* export_to_quickbooks_iif.  A line is the sequence of its tab-separated  *)
(* fields, each a text.                                                    *)
(***************************************************************************)
\* datetime.now().strftime("%m/%d/%Y") and .strftime("%H:%M:%S") at clock reading t
NowDate(t) == <<"01", "/", "15", "/", "2024">>

NowTime(t) == <<"09", ":", "30", ":", TwoDigits(t)>>

IifHeaderUnstamped(t) ==
    << <<T("!HDR"), T("PROD"), T("VER"), T("REL"), T("IIFVER"), T("DATE"), T("TIME"),
         T("ACCNT")>>,
       <<T("HDR"), T("QuickBooks Pro"), T("2023"), T("Release"), T("1"), T("N")>>,
       <<T("!TRNS"), T("TRNSTYPE"), T("DATE"), T("ACCNT"), T("NAME"), T("CLASS"),
         T("AMOUNT"), T("DOCNUM"), T("MEMO"), T("CLEAR"), T("TOPRINT"), T("NAMEADDR1"),
         T("NAMEADDR2"), T("NAMEADDR3"), T("NAMEADDR4"), T("NAMEADDR5"), T("DUEDATE"),
         T("TERMS"), T("PAID"), T("SHIPDATE")>> >>

\* the three lines appended before the loop (lines 29-34)
IifHeader(t) ==
    << <<T("!HDR"), T("PROD"), T("VER"), T("REL"), T("IIFVER"), T("DATE"), T("TIME"),
         T("ACCNT")>>,
       <<T("HDR"), T("QuickBooks Pro"), T("2023"), T("Release"), T("1"), NowDate(t),
         NowTime(t), T("N")>>,
       <<T("!TRNS"), T("TRNSTYPE"), T("DATE"), T("ACCNT"), T("NAME"), T("CLASS"),
         T("AMOUNT"), T("DOCNUM"), T("MEMO"), T("CLEAR"), T("TOPRINT"), T("NAMEADDR1"),
         T("NAMEADDR2"), T("NAMEADDR3"), T("NAMEADDR4"), T("NAMEADDR5"), T("DUEDATE"),
         T("TERMS"), T("PAID"), T("SHIPDATE")>> >>

IifItemErr(item) == FirstError(<<KeyErr(item, "amount"), KeyErr(item, "name")>>)

\* the exception one iteration of the loop of lines 36-46 raises
IifInvoiceErr(invoice) ==
    FirstError(
        <<DateErr(invoice, "invoiceDate"), DateErr(invoice, "dueDate"),
          KeyErr(invoice, "clientName"), KeyErr(invoice, "total"),
          KeyErr(invoice, "invoiceNumber"), KeyErr(invoice, "addressLine1"),
          KeyErr(invoice, "city"), KeyErr(invoice, "country"), KeyErr(invoice, "items")>>
        \o (IF Has(invoice, "items")
            THEN [i \in 1..Len(ItemsOf(invoice)) |-> IifItemErr(ItemsOf(invoice)[i])]
            ELSE <<>>))

TrnsLine(invoice) ==
    <<T("TRNS"), T("INVOICE"), DateStr(invoice, "invoiceDate", "%m/%d/%Y"),
      T("Accounts Receivable"), T(invoice.clientName), T(""), StrInt(invoice.total),
      T(invoice.invoiceNumber), T(""), T("N"), T("Y"), T(invoice.addressLine1),
      T(invoice.city), T(invoice.country), T(""), T(""),
      DateStr(invoice, "dueDate", "%m/%d/%Y"), T("Net 30"), T("N"), T("")>>

SplLine(invoice, item) ==
    <<T("SPL"), DateStr(invoice, "invoiceDate", "%m/%d/%Y"), T("Sales"),
      T(invoice.clientName), T(""), <<"-">> \o StrInt(item.amount),
      T(invoice.invoiceNumber),
      T(item.name) \o <<": ">> \o T(Get(item, "description", "")), T("N"), T("Y")>>

IifInvoiceLinesTerminated(invoice) ==
    <<TrnsLine(invoice)>>
    \o [i \in 1..Len(ItemsOf(invoice)) |-> SplLine(invoice, ItemsOf(invoice)[i])]
    \o << <<T("ENDTRNS")>> >>

\* the lines one iteration of the loop of lines 36-46 appends
IifInvoiceLines(invoice) ==
    <<TrnsLine(invoice)>>
    \o [i \in 1..Len(ItemsOf(invoice)) |-> SplLine(invoice, ItemsOf(invoice)[i])]

\* line 48
IifTrailer == << <<T("ENDTRNS")>> >>

(***************************************************************************)
(* The CSV mappings.  csv.DictWriter: a row is the dict of its cells, and  *)
(* writeheader() writes the row that maps every field name to itself.      *)
(***************************************************************************)
XeroFields ==
    {"ContactName", "EmailAddress", "POAddressLine1", "POCity", "POCountry",
     "InvoiceNumber", "InvoiceDate", "DueDate", "Total", "Status", "Description",
     "Quantity", "UnitAmount", "AccountCode", "TaxType"}

SageFields ==
    {"Customer", "Invoice_No", "Date", "Due_Date", "Reference", "Description",
     "Net_Amount", "Tax_Amount", "Total_Amount", "Status", "Currency"}

WaveFields ==
    {"Customer name", "Customer email", "Invoice number", "Invoice date", "Due date",
     "Product/Service", "Description", "Quantity", "Rate", "Amount", "Tax name",
     "Tax rate", "Invoice total", "Invoice status"}

GenericFields ==
    {"Invoice Number", "Client Name", "Client Email", "Invoice Date", "Due Date",
     "Subtotal", "Discount", "Tax Rate", "Tax Amount", "Total", "Status", "Notes",
     "Items JSON"}

\* writer.writeheader()
HeaderRow(fieldnames) == [f \in fieldnames |-> T(f)]

\* invoice.get('vat') as a condition
VatTruthy(invoice) == Has(invoice, "vat") /\ invoice.vat # 0

\* float(invoice.get('vat', 0)) / 100 * float(invoice['subtotal']) if invoice.get('vat') else 0,
\* in hundredths
VatAmount(invoice) == IF VatTruthy(invoice) THEN invoice.vat * invoice.subtotal ELSE 0

(***************************************************************************)
(* export_to_xero_csv: one row per (invoice, item).                        *)
(***************************************************************************)
XeroItemErr(invoice, item) ==
    FirstError(
        <<KeyErr(invoice, "clientName"), KeyErr(invoice, "clientEmail"),
          KeyErr(invoice, "addressLine1"), KeyErr(invoice, "city"),
          KeyErr(invoice, "country"), KeyErr(invoice, "invoiceNumber"),
          DateErr(invoice, "invoiceDate"), DateErr(invoice, "dueDate"),
          KeyErr(invoice, "total"), KeyErr(invoice, "status"), KeyErr(item, "name"),
          KeyErr(item, "quantity"), KeyErr(item, "rate")>>)

\* the exception one iteration of the loop of lines 63-84 raises
XeroInvoiceErr(invoice) ==
    IF ~Has(invoice, "items") THEN "KeyError"
    ELSE FirstError([i \in 1..Len(ItemsOf(invoice)) |->
                        XeroItemErr(invoice, ItemsOf(invoice)[i])])

XeroRow(invoice, item) ==
    [ContactName |-> T(invoice.clientName),
     EmailAddress |-> T(invoice.clientEmail),
     POAddressLine1 |-> T(invoice.addressLine1),
     POCity |-> T(invoice.city),
     POCountry |-> T(invoice.country),
     InvoiceNumber |-> T(invoice.invoiceNumber),
     InvoiceDate |-> DateStr(invoice, "invoiceDate", "%d/%m/%Y"),
     DueDate |-> DateStr(invoice, "dueDate", "%d/%m/%Y"),
     Total |-> StrInt(invoice.total),
     Status |-> T(Upper(invoice.status)),
     Description |-> T(item.name) \o <<": ">> \o T(Get(item, "description", "")),
     Quantity |-> StrInt(item.quantity),
     UnitAmount |-> StrInt(item.rate),
     AccountCode |-> T("200"),
     TaxType |-> T("GST")]

XeroInvoiceRowsReversed(invoice) ==
    [i \in 1..Len(ItemsOf(invoice)) |->
        XeroRow(invoice, ItemsOf(invoice)[Len(ItemsOf(invoice)) + 1 - i])]

\* the rows one iteration of the loop of lines 63-84 writes
XeroInvoiceRows(invoice) ==
    [i \in 1..Len(ItemsOf(invoice)) |-> XeroRow(invoice, ItemsOf(invoice)[i])]

(***************************************************************************)
(* export_to_sage_csv: one row per invoice.                                *)
(***************************************************************************)
\* the exception one iteration of the loop of lines 100-116 raises
SageInvoiceErr(invoice) ==
    FirstError(
        <<IF VatTruthy(invoice) THEN KeyErr(invoice, "subtotal") ELSE "",
          KeyErr(invoice, "clientName"), KeyErr(invoice, "invoiceNumber"),
          DateErr(invoice, "invoiceDate"), DateErr(invoice, "dueDate"),
          KeyErr(invoice, "subtotal"), KeyErr(invoice, "total"),
          KeyErr(invoice, "status")>>)

SageRow(invoice) ==
    [Customer |-> T(invoice.clientName),
     Invoice_No |-> T(invoice.invoiceNumber),
     Date |-> DateStr(invoice, "invoiceDate", "%d/%m/%Y"),
     Due_Date |-> DateStr(invoice, "dueDate", "%d/%m/%Y"),
     Reference |-> T(invoice.invoiceNumber),
     Description |-> <<"Invoice for ">> \o T(invoice.clientName),
     Net_Amount |-> StrInt(invoice.subtotal),
     Tax_Amount |-> Fmt2f(VatAmount(invoice)),
     Total_Amount |-> StrInt(invoice.total),
     Status |-> T(Title(invoice.status)),
     Currency |-> T("USD")]

\* the rows one iteration of the loop of lines 100-116 writes
SageInvoiceRows(invoice) == <<SageRow(invoice)>>

(***************************************************************************)
(* export_to_wave_csv: one row per (invoice, item), the invoice total on   *)
(* the first row only.                                                     *)
(***************************************************************************)
WaveItemErr(invoice, item) ==
    FirstError(
        <<KeyErr(invoice, "clientName"), KeyErr(invoice, "clientEmail"),
          KeyErr(invoice, "invoiceNumber"), DateErr(invoice, "invoiceDate"),
          DateErr(invoice, "dueDate"), KeyErr(item, "name"), KeyErr(item, "quantity"),
          KeyErr(item, "rate"), KeyErr(item, "amount")>>)

\* the exception one iteration of the loop of lines 132-152 raises; invoice['total']
\* is read for the first item only, invoice['status'] for every item
WaveInvoiceErr(invoice) ==
    IF ~Has(invoice, "items") THEN "KeyError"
    ELSE FirstError([i \in 1..Len(ItemsOf(invoice)) |->
                        FirstError(<<WaveItemErr(invoice, ItemsOf(invoice)[i]),
                                     IF i = 1 THEN KeyErr(invoice, "total") ELSE "",
                                     KeyErr(invoice, "status")>>)])

WaveRowTotalAlways(invoice, item, i) ==
    [f \in WaveFields |->
        CASE f = "Customer name" -> T(invoice.clientName)
          [] f = "Customer email" -> T(invoice.clientEmail)
          [] f = "Invoice number" -> T(invoice.invoiceNumber)
          [] f = "Invoice date" -> DateStr(invoice, "invoiceDate", "%Y-%m-%d")
          [] f = "Due date" -> DateStr(invoice, "dueDate", "%Y-%m-%d")
          [] f = "Product/Service" -> T(item.name)
          [] f = "Description" -> T(Get(item, "description", ""))
          [] f = "Quantity" -> StrInt(item.quantity)
          [] f = "Rate" -> Fmt2f(item.rate * 100)
          [] f = "Amount" -> Fmt2f(item.amount * 100)
          [] f = "Tax name" -> IF VatTruthy(invoice) /\ invoice.vat > 0 THEN T("VAT") ELSE T("")
          [] f = "Tax rate" -> IF VatTruthy(invoice) THEN StrInt(invoice.vat) \o <<"%">> ELSE T("")
          [] f = "Invoice total" -> StrInt(invoice.total)
          [] f = "Invoice status" -> T(Title(invoice.status))]

\* the row dict of lines 136-151 for the item at enumerate position i (from 0)
WaveRow(invoice, item, i) ==
    [f \in WaveFields |->
        CASE f = "Customer name" -> T(invoice.clientName)
          [] f = "Customer email" -> T(invoice.clientEmail)
          [] f = "Invoice number" -> T(invoice.invoiceNumber)
          [] f = "Invoice date" -> DateStr(invoice, "invoiceDate", "%Y-%m-%d")
          [] f = "Due date" -> DateStr(invoice, "dueDate", "%Y-%m-%d")
          [] f = "Product/Service" -> T(item.name)
          [] f = "Description" -> T(Get(item, "description", ""))
          [] f = "Quantity" -> StrInt(item.quantity)
          [] f = "Rate" -> Fmt2f(item.rate * 100)
          [] f = "Amount" -> Fmt2f(item.amount * 100)
          [] f = "Tax name" -> IF VatTruthy(invoice) /\ invoice.vat > 0 THEN T("VAT") ELSE T("")
          [] f = "Tax rate" -> IF VatTruthy(invoice) THEN StrInt(invoice.vat) \o <<"%">> ELSE T("")
          [] f = "Invoice total" -> IF i = 0 THEN StrInt(invoice.total) ELSE T("")
          [] f = "Invoice status" -> T(Title(invoice.status))]

\* the rows one iteration of the loop of lines 132-152 writes
WaveInvoiceRows(invoice) ==
    [i \in 1..Len(ItemsOf(invoice)) |-> WaveRow(invoice, ItemsOf(invoice)[i], i - 1)]

(***************************************************************************)
(* export_to_generic_csv: one row per invoice, items as one JSON cell.     *)
(***************************************************************************)
\* the exception one iteration of the loop of lines 168-184 raises
GenericInvoiceErr(invoice) ==
    FirstError(
        <<KeyErr(invoice, "invoiceNumber"), KeyErr(invoice, "clientName"),
          KeyErr(invoice, "clientEmail"), DateErr(invoice, "invoiceDate"),
          DateErr(invoice, "dueDate"), KeyErr(invoice, "subtotal"),
          KeyErr(invoice, "total"), KeyErr(invoice, "status"), KeyErr(invoice, "items")>>)

\* line 182: the string itself when items is a string, json.dumps(items) otherwise
ItemsJsonCell(invoice) ==
    IF IsStr(invoice.items) THEN JsonText(invoice.items)
    ELSE JsonText(JsonDumps(invoice.items))

GenericRow(invoice) ==
    [f \in GenericFields |->
        CASE f = "Invoice Number" -> T(invoice.invoiceNumber)
          [] f = "Client Name" -> T(invoice.clientName)
          [] f = "Client Email" -> T(invoice.clientEmail)
          [] f = "Invoice Date" -> DateStr(invoice, "invoiceDate", "%Y-%m-%d")
          [] f = "Due Date" -> DateStr(invoice, "dueDate", "%Y-%m-%d")
          [] f = "Subtotal" -> StrInt(invoice.subtotal)
          [] f = "Discount" -> IF Has(invoice, "discount") THEN StrInt(invoice.discount)
                               ELSE T("0")
          [] f = "Tax Rate" -> (IF Has(invoice, "vat") THEN StrInt(invoice.vat) ELSE T("0"))
                               \o <<"%">>
          [] f = "Tax Amount" -> Fmt2f(VatAmount(invoice))
          [] f = "Total" -> StrInt(invoice.total)
          [] f = "Status" -> T(Title(invoice.status))
          [] f = "Notes" -> T(Get(invoice, "notes", ""))
          [] f = "Items JSON" -> ItemsJsonCell(invoice)]

\* the rows one iteration of the loop of lines 168-184 writes
GenericInvoiceRows(invoice) == <<GenericRow(invoice)>>

(***************************************************************************)
(* export_invoices: the dispatch and the mapping functions' common shape   *)
(* (a prologue, one loop iteration per invoice, a return).                 *)
(***************************************************************************)
\* the if/elif chain of lines 193-204
Dispatch(f) ==
    IF f = "quickbooks_iif" THEN "quickbooks_iif"
    ELSE IF f = "xero_csv" THEN "xero_csv"
    ELSE IF f = "sage_csv" THEN "sage_csv"
    ELSE IF f = "wave_csv" THEN "wave_csv"
    ELSE IF f = "generic_csv" THEN "generic_csv"
    ELSE "generic_csv"

\* what mapping function m has put in its buffer when its loop starts
Prologue(m, t) ==
    CASE m = "quickbooks_iif" -> IifHeader(t)
      [] m = "xero_csv" -> <<HeaderRow(XeroFields)>>
      [] m = "sage_csv" -> <<HeaderRow(SageFields)>>
      [] m = "wave_csv" -> <<HeaderRow(WaveFields)>>
      [] m = "generic_csv" -> <<HeaderRow(GenericFields)>>

InvoiceErr(m, invoice) ==
    CASE m = "quickbooks_iif" -> IifInvoiceErr(invoice)
      [] m = "xero_csv" -> XeroInvoiceErr(invoice)
      [] m = "sage_csv" -> SageInvoiceErr(invoice)
      [] m = "wave_csv" -> WaveInvoiceErr(invoice)
      [] m = "generic_csv" -> GenericInvoiceErr(invoice)

InvoiceRows(m, invoice) ==
    CASE m = "quickbooks_iif" -> IifInvoiceLines(invoice)
      [] m = "xero_csv" -> XeroInvoiceRows(invoice)
      [] m = "sage_csv" -> SageInvoiceRows(invoice)
      [] m = "wave_csv" -> WaveInvoiceRows(invoice)
      [] m = "generic_csv" -> GenericInvoiceRows(invoice)

\* what mapping function m appends after its loop
Trailer(m) == IF m = "quickbooks_iif" THEN IifTrailer ELSE <<>>

(***************************************************************************)
(* The invoices the model exports.                                         *)
(***************************************************************************)
Widget == [name |-> "Widget", quantity |-> 2, rate |-> 50, amount |-> 100]

Gadget == [name |-> "Gadget", description |-> "Blue", quantity |-> 1, rate |-> 250,
           amount |-> 250]

ItemList(k) == [i \in 1..k |-> IF i % 2 = 1 THEN Widget ELSE Gadget]

RECURSIVE SumAmounts(_)
SumAmounts(items) ==
    IF items = <<>> THEN 0 ELSE Head(items).amount + SumAmounts(Tail(items))

DateZ == <<"2024", "-", "03", "-", "05", "T", "10:30:00", "Z">>
DatePlain == <<"2024", "-", "04", "-", "04">>
DateMalformed == <<"05", "/", "03", "/", "2024">>

\* an invoice with every field of the data model, k items and the given vat rate
FullInvoice(k, vat) ==
    [invoiceNumber |-> IF vat = 0 THEN "INV-A" ELSE "INV-B",
     clientName |-> "Acme", clientEmail |-> "billing@acme.test",
     addressLine1 |-> "1 Main St", city |-> "Springfield", country |-> "US",
     invoiceDate |-> DateZ, dueDate |-> DatePlain,
     subtotal |-> SumAmounts(ItemList(k)), vat |-> vat,
     total |-> SumAmounts(ItemList(k)) + (vat * SumAmounts(ItemList(k))) \div 100,
     status |-> IF vat = 0 THEN "sent" ELSE "paid",
     items |-> [repr |-> "list", seq |-> ItemList(k)]]

MalformedInvoiceDate ==
    [FullInvoice(1, 0) EXCEPT !.invoiceNumber = "INV-C", !.invoiceDate = DateMalformed]

MalformedDueDate ==
    [FullInvoice(1, 0) EXCEPT !.invoiceNumber = "INV-D", !.dueDate = DateMalformed]

\* the invoice of the specification's example, with exactly its fields
ExampleInvoice ==
    [invoiceNumber |-> "INV-1", clientName |-> "Acme", subtotal |-> 100, vat |-> 10,
     total |-> 110, items |-> [repr |-> "list", seq |-> <<Widget>>]]

InvoicePool ==
    {FullInvoice(k, vat) : k \in 0..MaxItems, vat \in {0, 10}}
    \cup {MalformedInvoiceDate, MalformedDueDate, ExampleInvoice}

Formats ==
    {"quickbooks_iif", "xero_csv", "sage_csv", "freshbooks_csv", "wave_csv", "generic_csv",
     "xyz"}

Reprs == {"list", "default", "compact"}

\* the same invoice with its items held in representation r
Encode(invoice, r) ==
    IF Has(invoice, "items") THEN [invoice EXCEPT !.items.repr = r] ELSE invoice

EncodeAll(batch, r) == [i \in 1..Len(batch) |-> Encode(batch[i], r)]

NoCall == [called |-> FALSE, invoices |-> <<>>, stamp |-> 0, result |-> <<>>, error |-> ""]

RenderIdle ==
    /\ rpc = "off"
    /\ template = <<>>
    /\ doc = <<>>
    /\ invoice_data = <<>>
    /\ tidx = 0
    /\ rerror = ""

NoException == [type |-> "", message |-> <<>>]

NoFiles == <<>>

PdfIdle ==
    /\ gpc = "off"
    /\ template_name = "default_invoice.docx"
    /\ store = {"default_invoice.docx"}
    /\ fault = "none"
    /\ files = NoFiles
    /\ temp_pdf = "unbound"
    /\ pending = ""
    /\ converter_calls = 0
    /\ pdf_content = <<>>
    /\ gerror = NoException

\* the results dict of lines 162-168
NewResults == [processed |-> 0, sent |-> 0, failed |-> 0, skipped |-> 0, details |-> <<>>]

ReminderIdle ==
    /\ reminder_invoices = <<>>
    /\ current_time = [year |-> "2024", month |-> "01", day |-> "01"]
    /\ mpc = "off"
    /\ midx = 0
    /\ results = NewResults
    /\ outbox = <<>>

(***************************************************************************)
(* The exporter as a state machine.                                        *)
(***************************************************************************)
InitExport ==
    /\ invoices \in UNION {[1..n -> InvoicePool] : n \in 0..MaxInvoices}
    /\ format_type \in Formats
    /\ now = 0
    /\ stamp = 0
    /\ pc = "ready"
    /\ mapper = "none"
    /\ idx = 0
    /\ content = <<>>
    /\ result = <<>>
    /\ error = ""
    /\ prev = NoCall

Init == InitExport /\ RenderIdle /\ PdfIdle /\ ReminderIdle

\* export_invoices, lines 188-204, up to the start of the mapping function's loop
export_invoices ==
    /\ pc = "ready"
    /\ IF format_type \notin supported_formats
       THEN /\ pc' = "raised"
            /\ error' = "ValueError"
            /\ UNCHANGED <<stamp, mapper, idx, content>>
       ELSE /\ pc' = "loop"
            /\ mapper' = Dispatch(format_type)
            /\ stamp' = now
            /\ content' = Prologue(Dispatch(format_type), now)
            /\ idx' = 1
            /\ error' = ""
    /\ UNCHANGED <<invoices, format_type, now, result, prev>>
    /\ UNCHANGED <<renderVars, pdfVars, reminderVars>>

\* one iteration of mapping function m's loop, or its return after the last one; an
\* exception leaves the function and export_invoices, and the buffer is lost
MapperStep(m) ==
    /\ pc = "loop"
    /\ mapper = m
    /\ IF idx <= Len(invoices)
       THEN IF InvoiceErr(m, invoices[idx]) # ""
            THEN /\ pc' = "raised"
                 /\ error' = InvoiceErr(m, invoices[idx])
                 /\ UNCHANGED <<idx, content, result>>
            ELSE /\ content' = content \o InvoiceRows(m, invoices[idx])
                 /\ idx' = idx + 1
                 /\ UNCHANGED <<pc, error, result>>
       ELSE /\ pc' = "returned"
            /\ result' = content \o Trailer(m)
            /\ content' = content \o Trailer(m)
            /\ UNCHANGED <<idx, error>>
    /\ UNCHANGED <<invoices, format_type, now, stamp, mapper, prev>>
    /\ UNCHANGED <<renderVars, pdfVars, reminderVars>>

export_to_quickbooks_iif ==
    /\ mapper = "quickbooks_iif"
    /\ MapperStep("quickbooks_iif")

export_to_xero_csv ==
    /\ mapper = "xero_csv"
    /\ MapperStep("xero_csv")

export_to_sage_csv ==
    /\ mapper = "sage_csv"
    /\ MapperStep("sage_csv")

export_to_wave_csv ==
    /\ mapper = "wave_csv"
    /\ MapperStep("wave_csv")

export_to_generic_csv ==
    /\ mapper = "generic_csv"
    /\ MapperStep("generic_csv")

\* a second run of main() on the same batch, its items in any representation
SecondCall ==
    /\ pc \in {"returned", "raised"}
    /\ ~prev.called
    /\ \E r \in Reprs : invoices' = EncodeAll(invoices, r)
    /\ prev' = [called |-> TRUE, invoices |-> invoices, stamp |-> stamp,
                result |-> result, error |-> error]
    /\ pc' = "ready"
    /\ mapper' = "none"
    /\ idx' = 0
    /\ content' = <<>>
    /\ result' = <<>>
    /\ error' = ""
    /\ UNCHANGED <<format_type, now, stamp>>
    /\ UNCHANGED <<renderVars, pdfVars, reminderVars>>

\* time passes
Tick ==
    /\ now < MaxClock
    /\ now' = now + 1
    /\ UNCHANGED <<invoices, format_type, stamp, pc, mapper, idx, content, result, error,
                   prev>>
    /\ UNCHANGED <<renderVars, pdfVars, reminderVars>>

Next ==
    \/ export_invoices
    \/ export_to_quickbooks_iif
    \/ export_to_xero_csv
    \/ export_to_sage_csv
    \/ export_to_wave_csv
    \/ export_to_generic_csv
    \/ SecondCall
    \/ Tick

Spec == Init /\ [][Next]_vars

(***************************************************************************)
(* Reading an export back: where each invoice's records are, and the       *)
(* amounts written on them.                                                *)
(***************************************************************************)
Done == pc \in {"returned", "raised"}

ItemCount(invoice) == Len(invoice.items.seq)

\* the records a format writes for one invoice
RecordsPer(m, invoice) ==
    CASE m \in {"sage_csv", "generic_csv"} -> 1
      [] m \in {"xero_csv", "wave_csv"} -> ItemCount(invoice)
      [] m = "quickbooks_iif" -> 1 + ItemCount(invoice)

HeaderLen(m) == IF m = "quickbooks_iif" THEN Len(IifHeader(0)) ELSE Len(<<HeaderRow({})>>)

RECURSIVE RecordsBefore(_, _, _)
RecordsBefore(m, batch, i) ==
    IF i <= 1 THEN 0
    ELSE RecordsBefore(m, batch, i - 1) + RecordsPer(m, batch[i - 1])

\* the position in the output of the first record of invoice i
FirstRecord(m, batch, i) == HeaderLen(m) + RecordsBefore(m, batch, i) + 1

ParseNat(tok) == CHOOSE n \in 0..(2 * SumAmounts(ItemList(MaxItems))) : ToString(n) = tok

ParseAmount(text) == IF text[1] = "-" THEN 0 - ParseNat(text[2]) ELSE ParseNat(text[1])

RECURSIVE SumFrom(_, _, _, _)
\* the sum of the field at position field of lines[from .. from + count - 1]
SumFrom(lines, from, count, field) ==
    IF count = 0 THEN 0
    ELSE ParseAmount(lines[from][field]) + SumFrom(lines, from + 1, count - 1, field)

HasMalformedDate(invoice) ==
    \E k \in {"invoiceDate", "dueDate"} :
        Has(invoice, k) /\ ~IsIsoFormat(ReplaceZ(invoice[k]))

(***************************************************************************)
(* C1: a format_type outside the supported set makes export_invoices raise *)
(* before any mapping function is entered: nothing is buffered and nothing *)
(* is returned, for every invoice list.                                    *)
(***************************************************************************)
C1_UnknownFormatFailsFast ==
    (format_type \notin (Formats \ {"xyz"}) /\ pc # "ready")
        => /\ pc = "raised"
           /\ error = "ValueError"
           /\ mapper = "none"
           /\ content = <<>>
           /\ result = <<>>

C1_Witness ==
    /\ format_type = "xyz"
    /\ pc = "raised"
    /\ Len(invoices) = MaxInvoices
    /\ \A i \in 1..Len(invoices) : invoices[i] = FullInvoice(1, 10)

(***************************************************************************)
(* C2: in a batch where one invoice has a malformed invoiceDate or dueDate *)
(* and every other invoice exports cleanly, export_invoices returns, and   *)
(* what it returns is the export of the other invoices (original claim).   *)
(***************************************************************************)
C2_MalformedDateSkipsOnlyThatInvoice ==
    \A bad \in 1..Len(invoices) :
        (/\ Done
         /\ format_type \in Formats \ {"xyz"}
         /\ Len(invoices) >= 2
         /\ HasMalformedDate(invoices[bad])
         /\ \A j \in 1..Len(invoices) :
               j # bad => InvoiceErr(Dispatch(format_type), invoices[j]) = "")
        => /\ pc = "returned"
           /\ result = Prologue(Dispatch(format_type), stamp)
                       \o Flatten([j \in 1..Len(invoices) |->
                                     IF j = bad THEN <<>>
                                     ELSE InvoiceRows(Dispatch(format_type), invoices[j])])
                       \o Trailer(Dispatch(format_type))

(***************************************************************************)
(* C3: a tagged ledger export that returns consists of the three header    *)
(* lines, then for each invoice in turn one TRNS line followed by one SPL  *)
(* line per item, then the single line ENDTRNS; no header line and no      *)
(* ENDTRNS occurs anywhere else, whatever the number of invoices.          *)
(***************************************************************************)
IifTag(line) == line[1]

C3_LedgerFraming ==
    (pc = "returned" /\ mapper = "quickbooks_iif")
        => /\ Len(result) = 3 + RecordsBefore(mapper, invoices, Len(invoices) + 1) + 1
           /\ IifTag(result[1]) = <<"!HDR">>
           /\ IifTag(result[2]) = <<"HDR">>
           /\ IifTag(result[3]) = <<"!TRNS">>
           /\ result[Len(result)] = <<<<"ENDTRNS">>>>
           /\ \A p \in 4..(Len(result) - 1) : IifTag(result[p]) \in {<<"TRNS">>, <<"SPL">>}
           /\ \A i \in 1..Len(invoices) :
                 /\ IifTag(result[FirstRecord(mapper, invoices, i)]) = <<"TRNS">>
                 /\ \A j \in 1..ItemCount(invoices[i]) :
                       IifTag(result[FirstRecord(mapper, invoices, i) + j]) = <<"SPL">>

C3_Witness ==
    /\ pc = "returned"
    /\ mapper = "quickbooks_iif"
    /\ Len(invoices) = 2
    /\ ItemCount(invoices[1]) = 2
    /\ ItemCount(invoices[2]) = 1

(***************************************************************************)
(* C4: in a tagged ledger export that returns, for every invoice with at   *)
(* least one item the amounts on its SPL lines sum to the negation of the  *)
(* amount on its TRNS line (original claim).                               *)
(***************************************************************************)
C4_SplitsNetToZero ==
    (pc = "returned" /\ mapper = "quickbooks_iif")
        => \A i \in 1..Len(invoices) :
              ItemCount(invoices[i]) >= 1
                  => SumFrom(result, FirstRecord(mapper, invoices, i) + 1,
                             ItemCount(invoices[i]), 6)
                     = 0 - ParseAmount(result[FirstRecord(mapper, invoices, i)][7])

(***************************************************************************)
(* C5: in a line-item-detail export that returns, of the k >= 1 rows of an *)
(* invoice exactly the first has a non-empty 'Invoice total', for each     *)
(* invoice of the batch.                                                   *)
(***************************************************************************)
C5_TotalOnFirstRowOnly ==
    (pc = "returned" /\ mapper = "wave_csv")
        => \A i \in 1..Len(invoices) :
              \A j \in 1..ItemCount(invoices[i]) :
                  (result[FirstRecord(mapper, invoices, i) + j - 1]["Invoice total"] # <<>>)
                      <=> (j = 1)

C5_Witness ==
    /\ pc = "returned"
    /\ mapper = "wave_csv"
    /\ Len(invoices) = 2
    /\ ItemCount(invoices[1]) = 2
    /\ ItemCount(invoices[2]) = 2

(***************************************************************************)
(* C6 (original claim): two calls of export_invoices with the same invoice *)
(* list and the same format return the same text, whenever they are made.  *)
(***************************************************************************)
SameInput == prev.called /\ prev.invoices = invoices

C7_JsonItemsSameText ==
    \A r \in Reprs \ {"list"} :
        (/\ prev.called
         /\ pc = "returned"
         /\ prev.invoices = EncodeAll(invoices, "list")
         /\ invoices = EncodeAll(prev.invoices, r)
         /\ stamp = prev.stamp)
        => result = prev.result

(***************************************************************************)
(* C8 (original claim): the example invoice, carrying exactly its six      *)
(* fields, exports in the net/tax/total format to one row with Tax_Amount  *)
(* 10.00 and Total_Amount 110.                                             *)
(***************************************************************************)
C8_ExampleExports ==
    (Done /\ format_type = "sage_csv" /\ invoices = <<ExampleInvoice>>)
        => /\ pc = "returned"
           /\ Len(result) = 2
           /\ result[2].Tax_Amount = <<"10", ".", "00">>
           /\ result[2].Total_Amount = <<"110">>

(***************************************************************************)
(* C9: an export that returns holds, after the header, one record per      *)
(* invoice (sage_csv, generic_csv) or one per (invoice, item) pair         *)
(* (xero_csv, wave_csv, the SPL lines of quickbooks_iif, each group led by *)
(* the invoice's TRNS line), in the order of the invoices and, within an   *)
(* invoice, of its items, and no other record.                             *)
(***************************************************************************)
ItemMemo(item) == T(item.name) \o <<": ">> \o T(Get(item, "description", ""))

\* record rec of format m is the one written for invoice (and, where j > 0, its item j)
RecordIsOf(m, rec, invoice, j) ==
    CASE m = "sage_csv" ->
            /\ rec.Invoice_No = T(invoice.invoiceNumber)
            /\ rec.Net_Amount = StrInt(invoice.subtotal)
            /\ rec.Total_Amount = StrInt(invoice.total)
      [] m = "generic_csv" ->
            /\ rec["Invoice Number"] = T(invoice.invoiceNumber)
            /\ rec["Subtotal"] = StrInt(invoice.subtotal)
            /\ rec["Total"] = StrInt(invoice.total)
      [] m = "xero_csv" ->
            /\ rec.InvoiceNumber = T(invoice.invoiceNumber)
            /\ rec.Total = StrInt(invoice.total)
            /\ rec.Description = ItemMemo(invoice.items.seq[j])
            /\ rec.UnitAmount = StrInt(invoice.items.seq[j].rate)
      [] m = "wave_csv" ->
            /\ rec["Invoice number"] = T(invoice.invoiceNumber)
            /\ rec["Tax rate"] = (IF invoice.vat = 0 THEN <<>> ELSE StrInt(invoice.vat) \o <<"%">>)
            /\ rec["Product/Service"] = T(invoice.items.seq[j].name)
            /\ rec["Quantity"] = StrInt(invoice.items.seq[j].quantity)
      [] m = "quickbooks_iif" ->
            IF j = 0
            THEN /\ IifTag(rec) = <<"TRNS">>
                 /\ rec[8] = T(invoice.invoiceNumber)
                 /\ rec[7] = StrInt(invoice.total)
            ELSE /\ IifTag(rec) = <<"SPL">>
                 /\ rec[7] = T(invoice.invoiceNumber)
                 /\ rec[8] = ItemMemo(invoice.items.seq[j])

C9_OrderAndCount ==
    (pc = "returned")
        => /\ Len(result) = HeaderLen(mapper)
                            + RecordsBefore(mapper, invoices, Len(invoices) + 1)
                            + (IF mapper = "quickbooks_iif" THEN 1 ELSE 0)
           /\ \A i \in 1..Len(invoices) :
                 CASE mapper \in {"sage_csv", "generic_csv"} ->
                        RecordIsOf(mapper, result[FirstRecord(mapper, invoices, i)],
                                   invoices[i], 0)
                   [] mapper \in {"xero_csv", "wave_csv"} ->
                        \A j \in 1..ItemCount(invoices[i]) :
                            RecordIsOf(mapper,
                                       result[FirstRecord(mapper, invoices, i) + j - 1],
                                       invoices[i], j)
                   [] mapper = "quickbooks_iif" ->
                        \A j \in 0..ItemCount(invoices[i]) :
                            RecordIsOf(mapper,
                                       result[FirstRecord(mapper, invoices, i) + j],
                                       invoices[i], j)

C9_Witness ==
    /\ pc = "returned"
    /\ mapper = "xero_csv"
    /\ Len(invoices) = 2
    /\ ItemCount(invoices[1]) = 2
    /\ ItemCount(invoices[2]) = 1
    /\ invoices[1].invoiceNumber # invoices[2].invoiceNumber

(***************************************************************************)
(* The template renderer, InvoiceTemplateProcessor.  A template token is   *)
(* the three text tokens "{{", name, "}}".  A table is its number of grid  *)
(* columns and its rows, a row the sequence of its cells' texts.           *)
(***************************************************************************)
MaxTrailingRows == 2

Tok(name) == <<"{{", name, "}}">>

ItemKeys == {"item_name", "item_description", "item_quantity", "item_rate", "item_amount"}

\* the names of the modelled templates that begin with item_
ItemPrefixed == ItemKeys \cup {"item_sku"}

ReplacementKeys ==
    {"company_name", "company_address", "company_phone", "company_email",
     "company_website", "invoice_number", "invoice_date", "due_date", "status",
     "client_name", "client_email", "client_address", "client_phone", "subtotal",
     "discount_amount", "vat_rate", "vat_amount", "deposit_amount", "total", "currency",
     "notes", "payment_terms", "thank_you_message"}

\* the names of the modelled templates that the pattern \w+ matches
IsWord(name) ==
    name \in ReplacementKeys \cup ItemPrefixed
             \cup {"unknownField", "companyName", "clientName", "invoiceNumber", "discount",
                   "vat"}

\* f"${float(x):.2f}" and f"{float(x):.1f}" of a whole number
Dollars(x) == <<"$">> \o Fmt2f(100 * x)

Fmt1f(x) == <<ToString(x), ".", "0">>

\* the dict of lines 78-111
replacement_data(inv) ==
    [k \in ReplacementKeys |->
        CASE k = "company_name" -> T(Get(inv, "companyName", "Your Company"))
          [] k = "company_address" -> T(Get(inv, "companyAddress", ""))
          [] k = "company_phone" -> T(Get(inv, "companyPhone", ""))
          [] k = "company_email" -> T(Get(inv, "companyEmail", ""))
          [] k = "company_website" -> T(Get(inv, "companyWebsite", ""))
          [] k = "invoice_number" -> T(Get(inv, "invoiceNumber", "INV-001"))
          [] k = "invoice_date" -> Get(inv, "invoiceDate", <<>>)
          [] k = "due_date" -> Get(inv, "dueDate", <<>>)
          [] k = "status" -> T(Get(inv, "status", "draft"))
          [] k = "client_name" -> T(Get(inv, "clientName", ""))
          [] k = "client_email" -> T(Get(inv, "clientEmail", ""))
          [] k = "client_address" -> T(Get(inv, "clientAddress", ""))
          [] k = "client_phone" -> T(Get(inv, "clientPhone", ""))
          [] k = "subtotal" -> Dollars(Get(inv, "subtotal", 0))
          [] k = "discount_amount" -> Dollars(Get(inv, "discountAmount", 0))
          [] k = "vat_rate" -> Fmt1f(Get(inv, "vatRate", 0))
          [] k = "vat_amount" -> Dollars(Get(inv, "vatAmount", 0))
          [] k = "deposit_amount" -> Dollars(Get(inv, "depositAmount", 0))
          [] k = "total" -> Dollars(Get(inv, "total", 0))
          [] k = "currency" -> T("$")
          [] k = "notes" -> T(Get(inv, "notes", ""))
          [] k = "payment_terms" -> T(Get(inv, "paymentTerms", "Net 30 days"))
          [] k = "thank_you_message" -> T("Thank you for your business!")]

\* the dict of lines 62-68
item_data(item) ==
    [k \in ItemKeys |->
        CASE k = "item_name" -> T(Get(item, "name", ""))
          [] k = "item_description" -> T(Get(item, "description", ""))
          [] k = "item_quantity" -> StrInt(Get(item, "quantity", 1))
          [] k = "item_rate" -> Dollars(Get(item, "rate", 0))
          [] k = "item_amount" -> Dollars(Get(item, "amount", 0))]

RECURSIVE ReSubDroppingUnknown(_, _)
ReSubDroppingUnknown(text, data) ==
    IF text = <<>> THEN <<>>
    ELSE IF Len(text) >= 3 /\ text[1] = "{{" /\ IsWord(text[2]) /\ text[3] = "}}"
         THEN Get(data, text[2], <<>>)
              \o ReSubDroppingUnknown(SubSeq(text, 4, Len(text)), data)
         ELSE <<text[1]>> \o ReSubDroppingUnknown(Tail(text), data)

RECURSIVE ReSub(_, _)
\* re.sub(r'\{\{(\w+)\}\}', replace_var, text): one left-to-right pass; what a
\* match is replaced by is not scanned again
ReSub(text, data) ==
    IF text = <<>> THEN <<>>
    ELSE IF Len(text) >= 3 /\ text[1] = "{{" /\ IsWord(text[2]) /\ text[3] = "}}"
         THEN Get(data, text[2], Tok(text[2])) \o ReSub(SubSeq(text, 4, Len(text)), data)
         ELSE <<text[1]>> \o ReSub(Tail(text), data)

replace_template_variables(text, data) == IF text = <<>> THEN <<>> ELSE ReSub(text, data)

ReplaceAll(texts, data) ==
    [i \in 1..Len(texts) |-> replace_template_variables(texts[i], data)]

\* '{{item_' in row_text, row_text being the cells' texts joined by ' '
RowHasItemToken(row) ==
    \E c \in 1..Len(row) :
        \E i \in 1..(Len(row[c]) - 1) : row[c][i] = "{{" /\ row[c][i + 1] \in ItemPrefixed

\* lines 122-130: the first row holding an item token, counted from 1 (0: none)
DetectTemplateRow(table) ==
    IF \E r \in 1..Len(table.rows) : RowHasItemToken(table.rows[r])
    THEN CHOOSE r \in 1..Len(table.rows) :
            /\ RowHasItemToken(table.rows[r])
            /\ \A q \in 1..(r - 1) : ~RowHasItemToken(table.rows[q])
    ELSE 0

\* table.add_row(): one empty cell per grid column
EmptyRow(table) == [c \in 1..table.cols |-> <<>>]

\* lines 56-69 for a dict item: the new row, its cells filled from the template row's
NewItemRow(table, template_row, item) ==
    [c \in 1..table.cols |->
        IF c <= Len(template_row)
        THEN replace_template_variables(template_row[c], item_data(item))
        ELSE <<>>]

process_table_rows_filling_template(table, invoice_items, t) ==
    IF (IF IsStr(invoice_items) THEN FALSE ELSE invoice_items.seq = <<>>)
       \/ t > Len(table.rows)
    THEN [table |-> table, err |-> ""]
    ELSE IF IsStr(invoice_items)
    THEN [table |-> [table EXCEPT !.rows = SubSeq(table.rows, 1, t) \o <<EmptyRow(table)>>],
          err |-> "AttributeError"]
    ELSE [table |-> [table EXCEPT !.rows =
                        SubSeq(table.rows, 1, t - 1)
                        \o <<NewItemRow(table, table.rows[t], invoice_items.seq[1])>>
                        \o [i \in 1..Len(invoice_items.seq) |->
                               NewItemRow(table, table.rows[t], invoice_items.seq[i])]],
          err |-> ""]

\* process_table_rows with the template row at position t (counted from 1): the
\* table it leaves and the exception it raises.  A str invoice_items is never empty
\* and is iterated by character: item.get raises AttributeError on the first one,
\* after the rows below the template row were removed and one row was added (the
\* template row has a cell, so the table has a column).
process_table_rows(table, invoice_items, t) ==
    IF (IF IsStr(invoice_items) THEN FALSE ELSE invoice_items.seq = <<>>)
       \/ t > Len(table.rows)
    THEN [table |-> table, err |-> ""]
    ELSE IF IsStr(invoice_items)
    THEN [table |-> [table EXCEPT !.rows = SubSeq(table.rows, 1, t) \o <<EmptyRow(table)>>],
          err |-> "AttributeError"]
    ELSE [table |-> [table EXCEPT !.rows =
                        SubSeq(table.rows, 1, t)
                        \o [i \in 1..Len(invoice_items.seq) |->
                               NewItemRow(table, table.rows[t], invoice_items.seq[i])]],
          err |-> ""]

\* lines 137-140
ReplaceCells(table, data) ==
    [table EXCEPT !.rows = [r \in 1..Len(table.rows) |-> ReplaceAll(table.rows[r], data)]]

\* the body of the loop of lines 120-140
ProcessTable(table, inv) ==
    IF DetectTemplateRow(table) > 0
    THEN process_table_rows(table, Get(inv, "items", [repr |-> "list", seq |-> <<>>]),
                            DetectTemplateRow(table))
    ELSE [table |-> ReplaceCells(table, replacement_data(inv)), err |-> ""]

(***************************************************************************)
(* The templates and invoices the model renders.                           *)
(***************************************************************************)
HeaderRowCells(h) ==
    <<<<"Item">>, <<"Description">>, <<"Rate">>, <<"Qty">>,
      IF h = "currency" THEN <<"Amount (">> \o Tok("currency") \o <<")">> ELSE <<"Amount">>>>

\* the item row: with the renderer's item tokens ("item"), with an invoice-level
\* token beside one of them ("invoice_ref"), as create_template.py writes it
\* ("dotted", lines 91-97), or with no token at all ("none")
TemplateRowCells(r) ==
    CASE r = "item" ->
            <<Tok("item_name"), Tok("item_description"), Tok("item_rate"),
              Tok("item_quantity"), Tok("item_amount")>>
      [] r = "invoice_ref" ->
            <<Tok("item_name") \o <<" (">> \o Tok("invoice_number") \o <<")">>,
              Tok("item_description"), Tok("item_rate"), Tok("item_quantity"),
              Tok("item_amount") \o <<" ">> \o Tok("item_sku")>>
      [] r = "dotted" ->
            <<Tok("item.name"), Tok("item.description"), <<"$">> \o Tok("item.rate"),
              Tok("item.quantity"), <<"$">> \o Tok("item.amount")>>
      [] r = "none" -> <<<<"Consulting">>, <<>>, <<"$50.00">>, <<"1">>, <<"$50.00">>>>

TrailingRowCells(i) ==
    IF i = 1 THEN <<<<"Total">>, <<>>, <<>>, <<>>, Tok("total")>>
    ELSE <<<<"Sample">>, <<"Sample item">>, <<"$0.00">>, <<"0">>, <<"$0.00">>>>

ItemTable(h, r, k) ==
    [cols |-> Len(HeaderRowCells(h)),
     rows |-> <<HeaderRowCells(h), TemplateRowCells(r)>> \o [i \in 1..k |-> TrailingRowCells(i)]]

SummaryTable ==
    [cols |-> Len(<<<<"Subtotal:">>, Tok("subtotal")>>),
     rows |-> <<<<<<"Subtotal:">>, Tok("subtotal")>>,
                <<<<"Discount:">>, Tok("discount") \o <<"%">>>>,
                <<<<"Total:">>, Tok("total")>>>>]

Template(h, r, k) ==
    [paragraphs |-> <<<<"INVOICE">>,
                      <<"Invoice #: ">> \o Tok("invoice_number"),
                      <<"Bill To: ">> \o Tok("client_name") \o <<" ">> \o Tok("clientName"),
                      <<>>,
                      Tok("unknownField") \o Tok("notes")>>,
     tables |-> <<ItemTable(h, r, k), SummaryTable>>,
     sections |-> <<[header |-> <<Tok("company_name")>>,
                     footer |-> <<<<"Due ">> \o Tok("due_date"), Tok("thank_you_message")>>]>>]

TemplatePool ==
    {Template(h, r, k) : h \in {"plain", "currency"},
                         r \in {"item", "invoice_ref", "dotted", "none"},
                         k \in 0..MaxTrailingRows}

RenderInvoice(n, repr) ==
    [invoiceNumber |-> "INV-7", clientName |-> "Acme", clientEmail |-> "billing@acme.test",
     invoiceDate |-> DateZ, dueDate |-> DatePlain, subtotal |-> SumAmounts(ItemList(n)),
     total |-> SumAmounts(ItemList(n)), status |-> "sent", notes |-> "Net 30",
     items |-> [repr |-> repr, seq |-> ItemList(n)]]

\* input_data.get('invoice_data', {}): the empty dict
EmptyDict == <<>>

RenderInvoicePool ==
    {RenderInvoice(n, repr) : n \in 0..MaxItems, repr \in {"list", "default"}} \cup {EmptyDict}

ExportIdle ==
    /\ invoices = <<>>
    /\ format_type = "generic_csv"
    /\ now = 0
    /\ stamp = 0
    /\ pc = "off"
    /\ mapper = "none"
    /\ idx = 0
    /\ content = <<>>
    /\ result = <<>>
    /\ error = ""
    /\ prev = NoCall

(***************************************************************************)
(* process_document as a state machine.                                    *)
(***************************************************************************)
InitRender ==
    /\ ExportIdle
    /\ PdfIdle
    /\ ReminderIdle
    /\ rpc = "ready"
    /\ template \in TemplatePool
    /\ doc = <<>>
    /\ invoice_data \in RenderInvoicePool
    /\ tidx = 0
    /\ rerror = ""

\* lines 75-111: Document(template_path), replacement_data
open_template ==
    /\ rpc = "ready"
    /\ doc' = template
    /\ rpc' = "paragraphs"
    /\ UNCHANGED <<template, invoice_data, tidx, rerror>>
    /\ UNCHANGED <<exportVars, pdfVars, reminderVars>>

\* lines 113-116
process_paragraphs ==
    /\ rpc = "paragraphs"
    /\ doc' = [doc EXCEPT !.paragraphs = ReplaceAll(doc.paragraphs,
                                                    replacement_data(invoice_data))]
    /\ rpc' = "tables"
    /\ tidx' = 1
    /\ UNCHANGED <<template, invoice_data, rerror>>
    /\ UNCHANGED <<exportVars, pdfVars, reminderVars>>

\* lines 119-140: one iteration of the loop over doc.tables, or its end
process_tables ==
    /\ rpc = "tables"
    /\ IF tidx <= Len(doc.tables)
       THEN /\ doc' = [doc EXCEPT !.tables[tidx] =
                          ProcessTable(doc.tables[tidx], invoice_data).table]
            /\ IF ProcessTable(doc.tables[tidx], invoice_data).err # ""
               THEN /\ rpc' = "raised"
                    /\ rerror' = ProcessTable(doc.tables[tidx], invoice_data).err
                    /\ UNCHANGED tidx
               ELSE /\ tidx' = tidx + 1
                    /\ UNCHANGED <<rpc, rerror>>
       ELSE /\ rpc' = "sections"
            /\ UNCHANGED <<doc, tidx, rerror>>
    /\ UNCHANGED <<template, invoice_data>>
    /\ UNCHANGED <<exportVars, pdfVars, reminderVars>>

\* lines 143-154
process_sections ==
    /\ rpc = "sections"
    /\ doc' = [doc EXCEPT !.sections =
                  [i \in 1..Len(doc.sections) |->
                      [header |-> ReplaceAll(doc.sections[i].header,
                                             replacement_data(invoice_data)),
                       footer |-> ReplaceAll(doc.sections[i].footer,
                                             replacement_data(invoice_data))]]]
    /\ rpc' = "saving"
    /\ UNCHANGED <<template, invoice_data, tidx, rerror>>
    /\ UNCHANGED <<exportVars, pdfVars, reminderVars>>

\* a file added to, and removed from, the temporary directory
WithFile(fs, name, data) == [n \in DOMAIN fs \cup {name} |-> IF n = name THEN data ELSE fs[n]]

WithoutFile(fs, name) == [n \in DOMAIN fs \ {name} |-> fs[n]]

\* lines 157-161: NamedTemporaryFile(delete=False) creates the file, doc.save writes
\* it; either may raise, and nothing here removes the file
save_document ==
    /\ rpc = "saving"
    /\ IF fault = "mkdocx"
       THEN /\ rpc' = "raised"
            /\ rerror' = "OSError"
            /\ UNCHANGED files
       ELSE IF fault = "save"
       THEN /\ rpc' = "raised"
            /\ rerror' = "OSError"
            /\ files' = WithFile(files, "tmp.docx", <<>>)
       ELSE /\ rpc' = "saved"
            /\ files' = WithFile(files, "tmp.docx", doc)
            /\ UNCHANGED rerror
    /\ UNCHANGED <<template, doc, invoice_data, tidx>>
    /\ UNCHANGED <<gpc, template_name, store, fault, temp_pdf, pending, converter_calls,
                   pdf_content, gerror>>
    /\ UNCHANGED <<exportVars, reminderVars>>

NextRender ==
    \/ open_template
    \/ process_paragraphs
    \/ process_tables
    \/ process_sections
    \/ save_document

SpecRender == InitRender /\ [][NextRender]_vars

(***************************************************************************)
(* C10 (original claim): in the document process_document saves, no        *)
(* recognized token {{name}}, name a key of the field mapping, remains in  *)
(* any body paragraph, header or footer paragraph, or table cell.          *)
(***************************************************************************)
HasRecognizedToken(text) ==
    \E i \in 1..(Len(text) - 2) :
        text[i] = "{{" /\ text[i + 1] \in ReplacementKeys /\ text[i + 2] = "}}"

CellTexts(d) ==
    UNION {UNION {{d.tables[t].rows[r][c] : c \in 1..Len(d.tables[t].rows[r])} :
                  r \in 1..Len(d.tables[t].rows)} :
           t \in 1..Len(d.tables)}

ParagraphTexts(d) ==
    {d.paragraphs[i] : i \in 1..Len(d.paragraphs)}
    \cup UNION {{d.sections[s].header[i] : i \in 1..Len(d.sections[s].header)}
                \cup {d.sections[s].footer[i] : i \in 1..Len(d.sections[s].footer)} :
                s \in 1..Len(d.sections)}

C10_NoRecognizedTokenRemains ==
    rpc = "saved" => \A text \in ParagraphTexts(doc) \cup CellTexts(doc) :
                        ~HasRecognizedToken(text)

(***************************************************************************)
(* C11: replace_template_variables keeps what it does not recognize.  A    *)
(* token {{name}} whose name is not a key of the mapping stays in the      *)
(* result in its spelling, delimiters included, every text outside the     *)
(* tokens stays as it is, and only a token naming a key gives way to the   *)
(* key's value; so a text without a token comes back unchanged.  Stated    *)
(* position by position for every text the renderer hands to it: the body  *)
(* paragraphs, the header and footer paragraphs, the cells of a regular    *)
(* table (mapping of lines 78-111) and the cells of the generated item     *)
(* rows (mapping of lines 62-68).                                          *)
(***************************************************************************)
\* the positions of text where a token {{name}} begins
TokenStarts(text) ==
    {i \in 1..(Len(text) - 2) : text[i] = "{{" /\ IsWord(text[i + 1]) /\ text[i + 2] = "}}"}

\* what position i of text contributes to the result
ImageAt(text, data, i) ==
    IF i \in TokenStarts(text) /\ Has(data, text[i + 1]) THEN data[text[i + 1]]
    ELSE IF \E j \in TokenStarts(text) : i \in {j + 1, j + 2} /\ Has(data, text[j + 1])
         THEN <<>>
         ELSE <<text[i]>>

KeepsUnrecognized(text, data, out) ==
    out = Flatten([i \in 1..Len(text) |-> ImageAt(text, data, i)])

HasUnknownToken(text, data) == \E i \in TokenStarts(text) : ~Has(data, text[i + 1])

C11_UnrecognizedKeptVerbatim ==
    /\ rpc \in {"tables", "sections", "saving", "saved", "raised"} =>
          \A i \in 1..Len(template.paragraphs) :
              KeepsUnrecognized(template.paragraphs[i], replacement_data(invoice_data),
                                doc.paragraphs[i])
    /\ rpc \in {"sections", "saving", "saved"} =>
          /\ \A r \in 1..Len(template.tables[2].rows) :
                \A c \in 1..Len(template.tables[2].rows[r]) :
                    KeepsUnrecognized(template.tables[2].rows[r][c],
                                      replacement_data(invoice_data),
                                      doc.tables[2].rows[r][c])
          /\ LET t == DetectTemplateRow(template.tables[1])
                 items == Get(invoice_data, "items", [repr |-> "list", seq |-> <<>>]).seq
             IN  t > 0 /\ items # <<>> =>
                    \A n \in 1..Len(items) :
                        \A c \in 1..Len(template.tables[1].rows[t]) :
                            KeepsUnrecognized(template.tables[1].rows[t][c],
                                              item_data(items[n]),
                                              doc.tables[1].rows[t + n][c])
    /\ rpc \in {"saving", "saved"} =>
          \A s \in 1..Len(template.sections) :
              /\ \A i \in 1..Len(template.sections[s].header) :
                    KeepsUnrecognized(template.sections[s].header[i],
                                      replacement_data(invoice_data),
                                      doc.sections[s].header[i])
              /\ \A i \in 1..Len(template.sections[s].footer) :
                    KeepsUnrecognized(template.sections[s].footer[i],
                                      replacement_data(invoice_data),
                                      doc.sections[s].footer[i])

\* a saved document whose paragraph, summary cell and generated item cell each
\* held a token the mapping at hand has no key for, and a paragraph with no token
C11_Witness ==
    /\ rpc = "saved"
    /\ \E i \in 1..Len(template.paragraphs) :
          /\ HasUnknownToken(template.paragraphs[i], replacement_data(invoice_data))
          /\ \E j \in 1..(Len(doc.paragraphs[i]) - 2) :
                SubSeq(doc.paragraphs[i], j, j + 2) = Tok("unknownField")
    /\ \E i \in 1..Len(template.paragraphs) :
          template.paragraphs[i] # <<>> /\ TokenStarts(template.paragraphs[i]) = {}
    /\ DetectTemplateRow(template.tables[1]) > 0
    /\ Len(doc.tables[1].rows) > Len(template.tables[1].rows)
    /\ \E c \in 1..template.tables[1].cols :
          HasUnknownToken(doc.tables[1].rows[Len(doc.tables[1].rows)][c], EmptyDict)

(***************************************************************************)
(* The items table of the modelled templates is the first table; these     *)
(* name its template row, the invoice's items and the rows a rendering is   *)
(* expected to generate.                                                   *)
(***************************************************************************)
TemplateRowAt == DetectTemplateRow(template.tables[1])

InvoiceItems == Get(invoice_data, "items", [repr |-> "list", seq |-> <<>>]).seq

ItemTableRendered == rpc \in {"saving", "saved"} /\ TemplateRowAt > 0

RowsThrough(t) == SubSeq(template.tables[1].rows, 1, t)

RowsAfterTemplateRow ==
    {template.tables[1].rows[q] : q \in (TemplateRowAt + 1)..Len(template.tables[1].rows)}

GeneratedRows ==
    [n \in 1..Len(InvoiceItems) |->
        [c \in 1..template.tables[1].cols |->
            replace_template_variables(template.tables[1].rows[TemplateRowAt][c],
                                       item_data(InvoiceItems[n]))]]

(***************************************************************************)
(* C12 (original claim): in the rendered document the items table holds,   *)
(* below the rows that preceded the template row, exactly one row per      *)
(* invoice item (none for an invoice without items), and the template row  *)
(* with its literal {{item_*}} tokens is not among the rows.               *)
(***************************************************************************)
C12_ItemRowsEqualItemCount ==
    ItemTableRendered =>
        /\ Len(doc.tables[1].rows) - (TemplateRowAt - 1) = Len(InvoiceItems)
        /\ \A r \in 1..Len(doc.tables[1].rows) : ~RowHasItemToken(doc.tables[1].rows[r])

(***************************************************************************)
(* C13 (original claim): the rendered items table is the template's rows   *)
(* up to and including the template row, followed by one generated row per *)
(* item in item order, and nothing else, for every item count (0, 1,       *)
(* more) and every number of rows below the template row.                  *)
(***************************************************************************)
C13_TemplateRowsThenGenerated ==
    ItemTableRendered => doc.tables[1].rows = RowsThrough(TemplateRowAt) \o GeneratedRows

(***************************************************************************)
(* C17 (original claim): in the rendered items table none of the rows that *)
(* followed the template row in the template is left, whatever the item    *)
(* count (zero included), and the rows up to and including the template    *)
(* row are still there.                                                    *)
(***************************************************************************)
C17_RowsAfterTemplateRowDeleted ==
    ItemTableRendered =>
        /\ SubSeq(doc.tables[1].rows, 1, TemplateRowAt) = RowsThrough(TemplateRowAt)
        /\ \A r \in (TemplateRowAt + 1)..Len(doc.tables[1].rows) :
              doc.tables[1].rows[r] \notin RowsAfterTemplateRow

(***************************************************************************)
(* C18: rendering leaves the template row of the items table, and the rows *)
(* before it, with the cell texts the template has: the row is not         *)
(* removed, not filled with the first item, and no substitution touches    *)
(* it.  Each generated row is the template row's unmodified cells with the *)
(* five item keys substituted and every other token left standing.         *)
(***************************************************************************)
C18_TemplateRowUntouched ==
    /\ rpc # "ready" /\ TemplateRowAt > 0 =>
          SubSeq(doc.tables[1].rows, 1, TemplateRowAt) = RowsThrough(TemplateRowAt)
    /\ ItemTableRendered /\ InvoiceItems # <<>> =>
          /\ Len(doc.tables[1].rows) = TemplateRowAt + Len(InvoiceItems)
          /\ \A n \in 1..Len(InvoiceItems) :
                /\ doc.tables[1].rows[TemplateRowAt + n] = GeneratedRows[n]
                /\ \A c \in 1..template.tables[1].cols :
                      \A i \in TokenStarts(template.tables[1].rows[TemplateRowAt][c]) :
                          LET name == template.tables[1].rows[TemplateRowAt][c][i + 1]
                          IN  name \notin ItemKeys =>
                                \E j \in 1..Len(doc.tables[1].rows[TemplateRowAt + n][c]) - 2 :
                                    SubSeq(doc.tables[1].rows[TemplateRowAt + n][c], j, j + 2)
                                    = Tok(name)

\* a saved document of an invoice with items whose template row named an
\* invoice-level field beside the item fields
C18_Witness ==
    /\ rpc = "saved"
    /\ TemplateRowAt > 0
    /\ Len(InvoiceItems) >= 2
    /\ RowHasItemToken(doc.tables[1].rows[TemplateRowAt])
    /\ \E c \in 1..template.tables[1].cols :
          \E i \in TokenStarts(doc.tables[1].rows[TemplateRowAt][c]) :
              doc.tables[1].rows[TemplateRowAt][c][i + 1] = "invoice_number"
    /\ Len(template.tables[1].rows) > TemplateRowAt

(***************************************************************************)
(* C16 (original claim): process_document accepts items given as the JSON  *)
(* string of a sequence: it raises nothing, and the document it saves is   *)
(* the one it saves for the same invoice with the literal sequence.        *)
(***************************************************************************)
\* the document process_document builds from a template when nothing raises
RenderedFrom(tpl, inv) ==
    [paragraphs |-> ReplaceAll(tpl.paragraphs, replacement_data(inv)),
     tables |-> [i \in 1..Len(tpl.tables) |-> ProcessTable(tpl.tables[i], inv).table],
     sections |-> [i \in 1..Len(tpl.sections) |->
                     [header |-> ReplaceAll(tpl.sections[i].header, replacement_data(inv)),
                      footer |-> ReplaceAll(tpl.sections[i].footer, replacement_data(inv))]]]

HasJsonItems(inv) == Has(inv, "items") /\ IsStr(inv.items)

WithLiteralItems(inv) == [inv EXCEPT !.items = JsonLoads(inv.items)]

C16_JsonItemsRenderSame ==
    HasJsonItems(invoice_data) =>
        /\ rpc # "raised"
        /\ rpc \in {"saving", "saved"} =>
              doc = RenderedFrom(template, WithLiteralItems(invoice_data))

(***************************************************************************)
(* C19 (original claim): rendering the default template of                 *)
(* create_template.py, process_document takes the row of lines 91-97 for   *)
(* the item template row and adds below it one row per invoice item, the   *)
(* row holding the item's name, description, rate, quantity and amount.    *)
(***************************************************************************)
IsDefaultItemsTable(table) ==
    Len(table.rows) >= 2 /\ table.rows[2] = TemplateRowCells("dotted")

EndsWith(text, suffix) ==
    Len(text) >= Len(suffix)
    /\ SubSeq(text, Len(text) - Len(suffix) + 1, Len(text)) = suffix

CarriesItem(row, item) ==
    /\ Len(row) = 5
    /\ row[1] = T(Get(item, "name", ""))
    /\ row[2] = T(Get(item, "description", ""))
    /\ EndsWith(row[3], Fmt2f(100 * Get(item, "rate", 0)))
    /\ row[4] = StrInt(Get(item, "quantity", 1))
    /\ EndsWith(row[5], Fmt2f(100 * Get(item, "amount", 0)))

C19_DefaultTemplateRowDuplicated ==
    rpc \in {"saving", "saved"} /\ IsDefaultItemsTable(template.tables[1]) =>
        /\ DetectTemplateRow(template.tables[1]) = 2
        /\ Len(doc.tables[1].rows) >= 2 + Len(InvoiceItems)
        /\ \A n \in 1..Len(InvoiceItems) :
              CarriesItem(doc.tables[1].rows[2 + n], InvoiceItems[n])

(***************************************************************************)
(* generate_invoice_pdf as a state machine.  The call runs                 *)
(* process_document (the renderer's actions above) and then the try block  *)
(* of lines 175-193.  fault names the one file or converter operation that *)
(* raises during the call, if any.                                         *)
(***************************************************************************)
TemplateNames == {"default_invoice.docx", "invoice_v2.docx"}

Faults == {"none", "mkdocx", "save", "mkpdf", "convert", "read"}

template_path_exists_unchecked(name, dir) == TRUE

\* template_path.exists(), line 169
template_path_exists(name, dir) == name \in dir

\* line 170
TemplateNotFound(name) ==
    [type |-> "FileNotFoundError",
     message |-> <<"Template ", name, " not found in ", "templates">>]

Exception(type) == [type |-> type, message |-> <<>>]

InitPdf ==
    /\ ExportIdle
    /\ ReminderIdle
    /\ rpc = "off"
    /\ template \in TemplatePool
    /\ doc = <<>>
    /\ invoice_data \in RenderInvoicePool
    /\ tidx = 0
    /\ rerror = ""
    /\ gpc = "ready"
    /\ template_name \in TemplateNames
    /\ store \in {{}, {"default_invoice.docx"}}
    /\ fault \in Faults
    /\ files = NoFiles
    /\ temp_pdf = "unbound"
    /\ pending = ""
    /\ converter_calls = 0
    /\ pdf_content = <<>>
    /\ gerror = NoException

\* lines 166-173: the existence check, then the call of process_document
generate_invoice_pdf ==
    /\ gpc = "ready"
    /\ IF ~template_path_exists(template_name, store)
       THEN /\ gpc' = "raised"
            /\ gerror' = TemplateNotFound(template_name)
            /\ UNCHANGED rpc
       ELSE /\ gpc' = "processing"
            /\ rpc' = "ready"
            /\ UNCHANGED gerror
    /\ UNCHANGED <<template, doc, invoice_data, tidx, rerror>>
    /\ UNCHANGED <<template_name, store, fault, files, temp_pdf, pending, converter_calls,
                   pdf_content>>
    /\ UNCHANGED <<exportVars, reminderVars>>

\* line 173: process_document returns the path of the saved document, or its
\* exception leaves generate_invoice_pdf (the call is outside the try block)
process_document ==
    /\ gpc = "processing"
    /\ rpc \in {"saved", "raised"}
    /\ IF rpc = "raised"
       THEN /\ gpc' = "raised"
            /\ gerror' = Exception(rerror)
       ELSE /\ gpc' = "try"
            /\ UNCHANGED gerror
    /\ UNCHANGED renderVars
    /\ UNCHANGED <<template_name, store, fault, files, temp_pdf, pending, converter_calls,
                   pdf_content>>
    /\ UNCHANGED <<exportVars, reminderVars>>

\* lines 177-178: temp_pdf = tempfile.NamedTemporaryFile(delete=False, suffix='.pdf')
create_temp_pdf ==
    /\ gpc = "try"
    /\ IF fault = "mkpdf"
       THEN /\ pending' = "OSError"
            /\ gpc' = "finally"
            /\ UNCHANGED <<files, temp_pdf>>
       ELSE /\ files' = WithFile(files, "tmp.pdf", <<>>)
            /\ temp_pdf' = "tmp.pdf"
            /\ gpc' = "convert"
            /\ UNCHANGED pending
    /\ UNCHANGED renderVars
    /\ UNCHANGED <<template_name, store, fault, converter_calls, pdf_content, gerror>>
    /\ UNCHANGED <<exportVars, reminderVars>>

\* line 180: convert(str(processed_docx), temp_pdf.name)
convert ==
    /\ gpc = "convert"
    /\ converter_calls' = converter_calls + 1
    /\ IF fault = "convert"
       THEN /\ pending' = "ConversionError"
            /\ gpc' = "finally"
            /\ UNCHANGED files
       ELSE /\ files' = WithFile(files, temp_pdf, <<"%PDF", files["tmp.docx"]>>)
            /\ gpc' = "read"
            /\ UNCHANGED pending
    /\ UNCHANGED renderVars
    /\ UNCHANGED <<template_name, store, fault, temp_pdf, pdf_content, gerror>>
    /\ UNCHANGED <<exportVars, reminderVars>>

\* lines 183-186: open(temp_pdf.name, 'rb'), f.read(), return
read_pdf ==
    /\ gpc = "read"
    /\ IF fault = "read"
       THEN /\ pending' = "OSError"
            /\ UNCHANGED pdf_content
       ELSE /\ pdf_content' = files[temp_pdf]
            /\ UNCHANGED pending
    /\ gpc' = "finally"
    /\ UNCHANGED renderVars
    /\ UNCHANGED <<template_name, store, fault, files, temp_pdf, converter_calls, gerror>>
    /\ UNCHANGED <<exportVars, reminderVars>>

\* lines 188-193, the finally block: the processed document is removed, then
\* temp_pdf.name is evaluated, which raises UnboundLocalError in place of the
\* pending exception when temp_pdf was never assigned
cleanup ==
    /\ gpc = "finally"
    /\ IF temp_pdf = "unbound"
       THEN /\ files' = WithoutFile(files, "tmp.docx")
            /\ gpc' = "raised"
            /\ gerror' = Exception("UnboundLocalError")
       ELSE /\ files' = WithoutFile(WithoutFile(files, "tmp.docx"), temp_pdf)
            /\ gpc' = IF pending = "" THEN "returned" ELSE "raised"
            /\ gerror' = IF pending = "" THEN gerror ELSE Exception(pending)
    /\ UNCHANGED renderVars
    /\ UNCHANGED <<template_name, store, fault, temp_pdf, pending, converter_calls,
                   pdf_content>>
    /\ UNCHANGED <<exportVars, reminderVars>>

NextPdf ==
    \/ generate_invoice_pdf
    \/ open_template
    \/ process_paragraphs
    \/ process_tables
    \/ process_sections
    \/ save_document
    \/ process_document
    \/ create_temp_pdf
    \/ convert
    \/ read_pdf
    \/ cleanup

SpecPdf == InitPdf /\ [][NextPdf]_vars

(***************************************************************************)
(* C14 (original claim): when generate_invoice_pdf has returned or raised, *)
(* no temporary .docx or .pdf file of the call is left on disk, whichever  *)
(* operation failed, and the exception it raised is the failure that       *)
(* occurred (of process_document, or of the operation in the try block).   *)
(***************************************************************************)
OriginalFailure == IF rerror # "" THEN rerror ELSE pending

C14_NoIntermediateFileLeft ==
    gpc \in {"returned", "raised"} /\ template_path_exists(template_name, store) =>
        /\ DOMAIN files = {}
        /\ gpc = "raised" => gerror.type = OriginalFailure

(***************************************************************************)
(* C15: when templates_dir holds no file of the given name,                *)
(* generate_invoice_pdf raises FileNotFoundError with the template's name  *)
(* in its message and does nothing else: process_document is not entered,  *)
(* no temporary file exists, the converter is not invoked and no PDF       *)
(* content is produced.                                                    *)
(***************************************************************************)
C15_MissingTemplateFailsFirst ==
    ~(template_name \in store) =>
        /\ gpc \in {"ready", "raised"}
        /\ gpc = "raised" =>
              /\ gerror.type = "FileNotFoundError"
              /\ \E i \in 1..Len(gerror.message) : gerror.message[i] = template_name
        /\ rpc = "off" /\ doc = <<>>
        /\ DOMAIN files = {}
        /\ converter_calls = 0
        /\ pdf_content = <<>>

\* the call has raised for a name that is not in a non-empty store, the call
\* being one that would fail later too
C15_Witness ==
    /\ gpc = "raised"
    /\ template_name = "invoice_v2.docx"
    /\ store = {"default_invoice.docx"}
    /\ fault = "convert"
    /\ gerror = TemplateNotFound("invoice_v2.docx")

(***************************************************************************)
(* The reminder service (src/server/reminder_service.py):                  *)
(* process_overdue_invoices as a state machine.  current_time is taken at  *)
(* noon, later in the day than every due time of the modelled invoices, so *)
(* timedelta.days is the difference of the two dates.                      *)
(***************************************************************************)
MaxReminderInvoices == 2

\* int() of a two-digit field
FieldValue(tok) == CHOOSE n \in 0..99 : TwoDigits(n) = tok

\* the days of 2024 before the first of a month
DaysBeforeMonth(m) == <<0, 31, 60, 91, 121, 152, 182, 213, 244, 274, 305, 335>>[m]

\* the day of the year of a date of 2024
DayOfYear(dt) == DaysBeforeMonth(FieldValue(dt.month)) + FieldValue(dt.day)

\* (current_time.replace(tzinfo=due_date.tzinfo) - due_date).days, lines 175-176
DaysOverdue(invoice, today) ==
    DayOfYear(today) - DayOfYear(FromIsoFormat(ReplaceZ(invoice.dueDate)))

get_reminder_type(days_overdue) ==
    IF days_overdue <= 7 THEN "gentle"
    ELSE IF days_overdue <= 30 THEN "urgent"
    ELSE "final"

\* send_reminder_email: the exception caught by its except clause ("" : none, the
\* email was handed to the server and True is returned)
SendErr(invoice, smtp) ==
    FirstError(<<DateErr(invoice, "dueDate"), KeyErr(invoice, "clientName"),
                 KeyErr(invoice, "invoiceNumber"), KeyErr(invoice, "total"),
                 KeyErr(invoice, "clientEmail"),
                 IF smtp = "ok" THEN "" ELSE "SMTPException">>)

send_reminder_email(invoice, reminder_type, smtp) == SendErr(invoice, smtp) = ""

\* the except clause of lines 209-215
ExceptClause(res, invoice, reason) ==
    [res EXCEPT !.failed = @ + 1,
                !.details = Append(@, [invoice |-> Get(invoice, "invoiceNumber", "Unknown"),
                                       status |-> "failed", reason |-> reason])]

\* lines 178-185: the skip branch; the detail's invoice['invoiceNumber'] is read
\* after skipped was incremented
SkipBranch(res, invoice) ==
    LET counted == [res EXCEPT !.skipped = @ + 1]
    IN  IF ~Has(invoice, "invoiceNumber") THEN ExceptClause(counted, invoice, "KeyError")
        ELSE [counted EXCEPT !.details =
                 Append(@, [invoice |-> invoice.invoiceNumber, status |-> "skipped",
                            reason |-> "Not overdue or already paid"])]

\* lines 187-207: the reminder is attempted and its outcome recorded
SendBranch(res, invoice, days_overdue, smtp) ==
    LET counted == [res EXCEPT !.processed = @ + 1]
        reminder_type == get_reminder_type(days_overdue)
    IN  IF send_reminder_email(invoice, reminder_type, smtp)
        THEN [counted EXCEPT !.sent = @ + 1,
                             !.details =
                                 Append(@, [invoice |-> invoice.invoiceNumber,
                                            status |-> "sent", type |-> reminder_type,
                                            days_overdue |-> days_overdue,
                                            client |-> invoice.clientName])]
        ELSE LET failed == [counted EXCEPT !.failed = @ + 1]
             IN  IF ~Has(invoice, "invoiceNumber")
                 THEN ExceptClause(failed, invoice, "KeyError")
                 ELSE [failed EXCEPT !.details =
                          Append(@, [invoice |-> invoice.invoiceNumber, status |-> "failed",
                                     reason |-> "Email sending failed"])]

\* the body of the loop, lines 172-215: the results dict after one invoice
LoopBody(res, invoice, today, smtp) ==
    IF DateErr(invoice, "dueDate") # ""
    THEN ExceptClause(res, invoice, DateErr(invoice, "dueDate"))
    ELSE IF DaysOverdue(invoice, today) <= 0 THEN SkipBranch(res, invoice)
    ELSE IF ~Has(invoice, "status") THEN ExceptClause(res, invoice, "KeyError")
    ELSE IF invoice.status = "paid" THEN SkipBranch(res, invoice)
    ELSE SendBranch(res, invoice, DaysOverdue(invoice, today), smtp)

\* whether the loop body hands an email for the invoice to the SMTP server
Reminded(invoice, today, smtp) ==
    /\ DateErr(invoice, "dueDate") = ""
    /\ DaysOverdue(invoice, today) > 0
    /\ Has(invoice, "status") /\ invoice.status # "paid"
    /\ send_reminder_email(invoice, get_reminder_type(DaysOverdue(invoice, today)), smtp)

(***************************************************************************)
(* The invoices the reminder service is run on.                            *)
(***************************************************************************)
DateFuture == <<"2024", "-", "05", "-", "01">>

ReminderInvoice(number, due, status) ==
    [invoiceNumber |-> number, clientName |-> "Acme", clientEmail |-> "billing@acme.test",
     total |-> 100, status |-> status, dueDate |-> due]

Without(d, key) == [k \in DOMAIN d \ {key} |-> d[k]]

ReminderInvoicePool ==
    {ReminderInvoice("INV-1", DateZ, "sent"),
     ReminderInvoice("INV-2", DateZ, "paid"),
     ReminderInvoice("INV-3", DatePlain, "overdue"),
     ReminderInvoice("INV-4", DateFuture, "sent"),
     ReminderInvoice("INV-5", DateMalformed, "sent"),
     Without(ReminderInvoice("INV-6", DateZ, "sent"), "status"),
     Without(ReminderInvoice("INV-7", DateZ, "paid"), "invoiceNumber"),
     Without(ReminderInvoice("INV-8", DateZ, "sent"), "clientEmail"),
     Without(ReminderInvoice("INV-9", DateZ, "sent"), "invoiceNumber")}

Todays ==
    {[year |-> "2024", month |-> "04", day |-> "04"],
     [year |-> "2024", month |-> "04", day |-> "10"]}

InitReminder ==
    /\ ExportIdle
    /\ RenderIdle
    /\ PdfIdle
    /\ reminder_invoices \in UNION {[1..n -> ReminderInvoicePool] : n \in 0..MaxReminderInvoices}
    /\ current_time \in Todays
    /\ mpc = "ready"
    /\ midx = 0
    /\ results = NewResults
    /\ outbox = <<>>

\* lines 160-170
process_overdue_invoices ==
    /\ mpc = "ready"
    /\ mpc' = "loop"
    /\ midx' = 1
    /\ results' = NewResults
    /\ UNCHANGED <<reminder_invoices, current_time, outbox>>
    /\ UNCHANGED <<exportVars, renderVars, pdfVars>>

\* lines 172-215: one iteration of the loop; the SMTP server accepts the email or not
process_invoice ==
    /\ mpc = "loop"
    /\ midx <= Len(reminder_invoices)
    /\ \E smtp \in {"ok", "refused"} :
          /\ results' = LoopBody(results, reminder_invoices[midx], current_time, smtp)
          /\ outbox' = IF Reminded(reminder_invoices[midx], current_time, smtp)
                       THEN Append(outbox, midx)
                       ELSE outbox
    /\ midx' = midx + 1
    /\ UNCHANGED <<reminder_invoices, current_time, mpc>>
    /\ UNCHANGED <<exportVars, renderVars, pdfVars>>

\* line 217
return_results ==
    /\ mpc = "loop"
    /\ midx > Len(reminder_invoices)
    /\ mpc' = "returned"
    /\ UNCHANGED <<reminder_invoices, current_time, midx, results, outbox>>
    /\ UNCHANGED <<exportVars, renderVars, pdfVars>>

NextReminder ==
    \/ process_overdue_invoices
    \/ process_invoice
    \/ return_results

SpecReminder == InitReminder /\ [][NextReminder]_vars

(***************************************************************************)
(* C20 (original claim): when process_overdue_invoices returns, every      *)
(* invoice of the list is counted once: skipped + sent + failed is the     *)
(* length of the list, details holds one entry per invoice in the order of *)
(* the list, processed = sent + failed, and an invoice that is paid or not *)
(* yet overdue has the entry "skipped" and no reminder in the outbox.      *)
(***************************************************************************)
SkipsByRule(invoice, today) ==
    /\ DateErr(invoice, "dueDate") = ""
    /\ \/ DaysOverdue(invoice, today) <= 0
       \/ Has(invoice, "status") /\ invoice.status = "paid"

C20_EveryInvoiceCountedOnce ==
    mpc = "returned" =>
        /\ results.skipped + results.sent + results.failed = Len(reminder_invoices)
        /\ Len(results.details) = Len(reminder_invoices)
        /\ \A i \in 1..Len(results.details) :
              i <= Len(reminder_invoices) =>
                 results.details[i].invoice
                 = Get(reminder_invoices[i], "invoiceNumber", "Unknown")
        /\ results.processed = results.sent + results.failed
        /\ \A i \in 1..Len(reminder_invoices) :
              SkipsByRule(reminder_invoices[i], current_time) =>
                 /\ i <= Len(results.details) => results.details[i].status = "skipped"
                 /\ \A j \in 1..Len(outbox) : outbox[j] # i

====
